---- MODULE Spec2Model ----
(***************************************************************************)
(* Model of the booking service in src/app.py: the Booking table, the      *)
(* admission handler book(), the availability helper                      *)
(* available_slots_for() behind /api/slots, and the read views schedule()  *)
(* and bookings_json().                                                    *)
(*                                                                         *)
(* Strings are sequences of one-character strings, so that parsing and     *)
(* string comparison are computed rather than assumed.  A form field that  *)
(* is absent (request.form.get returns None) is the value NoneV.          *)
(* Amounts are the float prices 15.0, 30.0, 50.0, held as integers.        *)
(* The created_at timestamp of a Booking is not modelled: no handler reads *)
(* it.                                                                     *)
(*                                                                         *)
(* Spec serves requests one at a time; SpecConc lets the query and the     *)
(* commit of book() interleave between threads.  In both, the storage      *)
(* calls of book(), schedule() and bookings_json() succeed; the one        *)
(* storage failure the code handles, the query of available_slots_for(),   *)
(* is the input fail of api_slots.  SpecFail serves book() calls one at a  *)
(* time and lets the commit raise.                                         *)
(***************************************************************************)
EXTENDS Integers, Sequences, FiniteSets, TLC

VARIABLES
    store,      \* the Booking table: the rows in insertion (id) order
    inflight,   \* per request thread: the locals of book() between its query and its commit
    last,       \* the response of the handler that returned most recently
    validated   \* history: number of book() calls that passed both validations

vars == <<store, inflight, last, validated>>

---------------------------------------------------------------------------
(* Bounds of the model *)

MaxBookings == 3          \* rows in the table, when requests are served one at a time
MaxThreadedCalls == 3     \* book() calls that pass validation, when threads serve them
NumProcs == 2             \* request threads

Procs == 1..NumProcs

---------------------------------------------------------------------------
(* Strings *)

NoneV == <<"None">>
Empty == <<>>

\* Python truthiness of a form value: None and '' are falsy
Falsy(x) == x = NoneV \/ x = Empty

DigitChars == <<"0", "1", "2", "3", "4", "5", "6", "7", "8", "9">>

IsDigit(c) == \E n \in 1..10 : DigitChars[n] = c

DigitVal(c) == (CHOOSE n \in 1..10 : DigitChars[n] = c) - 1

---------------------------------------------------------------------------
(* Slot catalog *)

DEFAULT_SLOTS ==
    << <<"0", "8", ":", "0", "0">>, <<"0", "9", ":", "0", "0">>,
       <<"1", "0", ":", "0", "0">>, <<"1", "1", ":", "0", "0">>,
       <<"1", "2", ":", "0", "0">>, <<"1", "3", ":", "0", "0">>,
       <<"1", "4", ":", "0", "0">>, <<"1", "5", ":", "0", "0">>,
       <<"1", "6", ":", "0", "0">> >>

basic == <<"b", "a", "s", "i", "c">>
deluxe == <<"d", "e", "l", "u", "x", "e">>
royal == <<"r", "o", "y", "a", "l">>

SERVICE_PRICES == (basic :> 15) @@ (deluxe :> 30) @@ (royal :> 50)

\* the lookup without its default: SERVICE_PRICES.get(service), None taken as 0.0
PriceOf_NoDefault(service) ==
    IF service \in DOMAIN SERVICE_PRICES THEN SERVICE_PRICES[service] ELSE 0

\* SERVICE_PRICES.get(service, 15.0)
PriceOf(service) ==
    IF service \in DOMAIN SERVICE_PRICES THEN SERVICE_PRICES[service] ELSE 15

---------------------------------------------------------------------------
(* datetime.strptime(date_str, '%Y-%m-%d').date() *)

IsLeap(y) == (y % 4 = 0 /\ y % 100 # 0) \/ y % 400 = 0

DaysInMonth(y, m) ==
    IF m = 2 THEN (IF IsLeap(y) THEN 29 ELSE 28)
    ELSE IF m \in {4, 6, 9, 11} THEN 30 ELSE 31

\* %m : 1[0-2] | 0[1-9] | [1-9]
MonthMatches(w) ==
    \/ Len(w) = 2 /\ w[1] = "1" /\ w[2] \in {"0", "1", "2"}
    \/ Len(w) = 2 /\ w[1] = "0" /\ IsDigit(w[2]) /\ w[2] # "0"
    \/ Len(w) = 1 /\ IsDigit(w[1]) /\ w[1] # "0"

\* %d : 3[0-1] | [1-2]\d | 0[1-9] | [1-9] | ' '[1-9]
DayMatches(w) ==
    \/ Len(w) = 2 /\ w[1] = "3" /\ w[2] \in {"0", "1"}
    \/ Len(w) = 2 /\ w[1] \in {"1", "2"} /\ IsDigit(w[2])
    \/ Len(w) = 2 /\ w[1] \in {"0", " "} /\ IsDigit(w[2]) /\ w[2] # "0"
    \/ Len(w) = 1 /\ IsDigit(w[1]) /\ w[1] # "0"

\* the number a matched %m or %d group stands for (int() of the group)
GroupVal(w) ==
    IF Len(w) = 1 THEN DigitVal(w[1])
    ELSE IF w[1] = " " THEN DigitVal(w[2])
    ELSE 10 * DigitVal(w[1]) + DigitVal(w[2])

\* [ok |-> FALSE] stands for ValueError; a date is <<year, month, day>>
strptime(s) ==
    LET bad == [ok |-> FALSE, date |-> <<0, 0, 0>>]
    IN  IF ~(Len(s) >= 5 /\ (\A i \in 1..4 : IsDigit(s[i])) /\ s[5] = "-")
        THEN bad
        ELSE
        LET rest == SubSeq(s, 6, Len(s))
            dashes == {i \in 1..Len(rest) : rest[i] = "-"}
        IN  IF dashes = {} THEN bad
            ELSE
            LET k == CHOOSE i \in dashes : \A j \in dashes : i <= j
                mw == SubSeq(rest, 1, k - 1)
                dw == SubSeq(rest, k + 1, Len(rest))
            IN  IF ~(MonthMatches(mw) /\ DayMatches(dw)) THEN bad
                ELSE
                LET y == 1000 * DigitVal(s[1]) + 100 * DigitVal(s[2])
                           + 10 * DigitVal(s[3]) + DigitVal(s[4])
                    m == GroupVal(mw)
                    d == GroupVal(dw)
                IN  IF y >= 1 /\ d <= DaysInMonth(y, m)
                    THEN [ok |-> TRUE, date |-> <<y, m, d>>]
                    ELSE bad

---------------------------------------------------------------------------
(* Ordering of strings and dates, as ORDER BY compares them *)

\* the characters the model uses, in code-point order
CodePoints ==
    <<" ", "-", "0", "1", "2", "3", "4", "5", "6", "7", "8", "9", ":",
      "A", "N", "a", "b", "c", "d", "e", "g", "i", "l", "n", "o", "r",
      "s", "u", "x", "y">>

Ord(c) == CHOOSE i \in 1..Len(CodePoints) : CodePoints[i] = c

\* a < b for TEXT values (binary collation)
StrLess(a, b) ==
    LET n == IF Len(a) < Len(b) THEN Len(a) ELSE Len(b)
        diff == {i \in 1..n : a[i] # b[i]}
    IN  IF diff = {} THEN Len(a) < Len(b)
        ELSE LET k == CHOOSE i \in diff : \A j \in diff : i <= j
             IN  Ord(a[k]) < Ord(b[k])

\* d < e for calendar dates <<year, month, day>>
DateLess(d, e) ==
    \/ d[1] < e[1]
    \/ d[1] = e[1] /\ d[2] < e[2]
    \/ d[1] = e[1] /\ d[2] = e[2] /\ d[3] < e[3]

\* date.isoformat(): 'YYYY-MM-DD', zero padded
isoformat(d) ==
    LET Digit(n) == DigitChars[(n % 10) + 1]
    IN  << Digit(d[1] \div 1000), Digit(d[1] \div 100), Digit(d[1] \div 10), Digit(d[1]),
           "-", Digit(d[2] \div 10), Digit(d[2]),
           "-", Digit(d[3] \div 10), Digit(d[3]) >>

---------------------------------------------------------------------------
(* Requests the model submits *)

Name == <<"A", "n", "n">>
Phone == <<"7", "6", "7", "1">>
Addr == <<"1", " ", "A", "d">>

\* date strings that parse: a new year's day, padded and unpadded, and a leap day
NewYear == <<"2", "0", "2", "5", "-", "0", "1", "-", "0", "1">>
NewYearUnpadded == <<"2", "0", "2", "5", "-", "1", "-", "1">>
LeapDay == <<"2", "0", "2", "4", "-", "0", "2", "-", "2", "9">>

ValidDateStrs == {NewYear, NewYearUnpadded, LeapDay}

\* date strings that do not: no such month, no such day, wrong field order
BadDateStrs ==
    { <<"2", "0", "2", "5", "-", "1", "3", "-", "4", "0">>,
      <<"2", "0", "2", "5", "-", "0", "2", "-", "2", "9">>,
      <<"0", "1", "-", "0", "1", "-", "2", "0", "2", "5">> }

\* a time that is no catalog slot, and a service that is no catalog service
OffCatalogTime == <<"8", ":", "0", "0">>
gold == <<"g", "o", "l", "d">>

RequiredFields == {"customer_name", "phone", "date", "time", "address"}

BaseReq ==
    [customer_name |-> Name, phone |-> Phone, service |-> NoneV,
     date |-> NewYear, time |-> DEFAULT_SLOTS[1],
     address |-> Addr, notes |-> NoneV]

\* requests that pass validation: the same slot under two spellings of the
\* date and with different services, another slot of the day, the same time
\* on another day, and a time outside the catalog
ValidRequests ==
    { BaseReq,
      [BaseReq EXCEPT !.date = NewYearUnpadded, !.service = deluxe, !.notes = Name],
      [BaseReq EXCEPT !.time = DEFAULT_SLOTS[2], !.service = gold],
      [BaseReq EXCEPT !.date = LeapDay, !.service = Empty],
      [BaseReq EXCEPT !.time = OffCatalogTime, !.service = royal] }

\* requests that do not: each required field empty or absent, each bad date,
\* and a bad date together with a missing field
InvalidRequests ==
    {[BaseReq EXCEPT ![f] = e] : f \in RequiredFields, e \in {Empty, NoneV}}
    \cup {[BaseReq EXCEPT !.date = ds] : ds \in BadDateStrs}
    \cup {[BaseReq EXCEPT !.date = ds, !.address = Empty] : ds \in BadDateStrs}

Requests == ValidRequests \cup InvalidRequests

\* query strings of /api/slots and /schedule
DateArgs == ValidDateStrs \cup BadDateStrs \cup {Empty, NoneV}

\* values of date.today()
Todays == {strptime(ds).date : ds \in ValidDateStrs}

---------------------------------------------------------------------------
(* The Booking table and its queries *)

NoDate == <<0, 0, 0>>

Rows(st) == {st[i] : i \in DOMAIN st}

\* the query with the wrong status literal
Occupied_WrongStatus(st, d, t) ==
    \E i \in DOMAIN st : st[i].date = d /\ st[i].time = t /\ st[i].status = "rejected"

\* the query without its time filter
Occupied_AnyTime(st, d, t) ==
    \E i \in DOMAIN st : st[i].date = d /\ st[i].status = "accepted"

\* Booking.query.filter_by(date=d, time=t, status='accepted').first() is not None
Occupied(st, d, t) ==
    \E i \in DOMAIN st : st[i].date = d /\ st[i].time = t /\ st[i].status = "accepted"

\* the query without its date filter
AcceptedOn_AnyDate(st, d) ==
    SelectSeq(st, LAMBDA b : b.status = "accepted")

\* Booking.query.filter_by(date=d, status='accepted').all()
AcceptedOn(st, d) ==
    SelectSeq(st, LAMBDA b : b.date = d /\ b.status = "accepted")

\* only accepted rows are committed
Insert_AcceptedOnly(st, row) ==
    IF row.status = "rejected" THEN st ELSE Append(st, [row EXCEPT !.id = Len(st) + 1])

\* a rejected newcomer is stored, and the holder of its slot is marked rejected too
Insert_Evict(st, row) ==
    Append([i \in DOMAIN st |->
                IF row.status = "rejected" /\ st[i].date = row.date /\ st[i].time = row.time
                THEN [st[i] EXCEPT !.status = "rejected"] ELSE st[i]],
           [row EXCEPT !.id = Len(st) + 1])

\* db.session.add(row); db.session.commit(): the row gets the next id
Insert(st, row) == Append(st, [row EXCEPT !.id = Len(st) + 1])

\* the results ORDER BY may return for the rows S: every arrangement of S in
\* which no row precedes one that sorts before it (rows that compare equal
\* come in any order); before is the set of pairs <<a, b>> with a sorting before b
OrderBy(S, before) ==
    {q \in [1..Cardinality(S) -> S] :
        /\ \A i, j \in 1..Cardinality(S) : i # j => q[i] # q[j]
        /\ \A i, j \in 1..Cardinality(S) : i < j => <<q[j], q[i]>> \notin before}

---------------------------------------------------------------------------
(* available_slots_for(d); fail: the query raises *)

\* the filter without its "not"
available_slots_for_Inverted(st, d, fail) ==
    IF d = NoDate THEN DEFAULT_SLOTS
    ELSE IF fail THEN DEFAULT_SLOTS
    ELSE LET rows == AcceptedOn(st, d)
             taken == [i \in 1..Len(rows) |-> rows[i].time]
         IN  SelectSeq(DEFAULT_SLOTS, LAMBDA s : \E i \in 1..Len(taken) : taken[i] = s)

\* the handler of the failure answers with no slots
available_slots_for_FailClosed(st, d, fail) ==
    IF d = NoDate THEN DEFAULT_SLOTS
    ELSE IF fail THEN <<>>
    ELSE LET rows == AcceptedOn(st, d)
             taken == [i \in 1..Len(rows) |-> rows[i].time]
         IN  SelectSeq(DEFAULT_SLOTS, LAMBDA s : ~(\E i \in 1..Len(taken) : taken[i] = s))


available_slots_for(st, d, fail) ==
    IF d = NoDate THEN DEFAULT_SLOTS
    ELSE IF fail THEN DEFAULT_SLOTS
    ELSE LET rows == AcceptedOn(st, d)
             taken == [i \in 1..Len(rows) |-> rows[i].time]
         IN  SelectSeq(DEFAULT_SLOTS, LAMBDA s : ~(\E i \in 1..Len(taken) : taken[i] = s))

---------------------------------------------------------------------------
(* POST /book *)

Idle == [pc |-> "idle"]

Busy == Cardinality({p \in Procs : inflight[p].pc # "idle"})

\* service = request.form.get('service') or 'basic'
ServiceOf(req) == IF Falsy(req.service) THEN basic ELSE req.service

\* the presence check without the address
ValidationError_NoAddress(req) ==
    IF \E f \in RequiredFields \ {"address"} : Falsy(req[f])
    THEN "Please fill all required fields."
    ELSE IF ~strptime(req.date).ok THEN "Invalid date format."
    ELSE "ok"

\* a time outside the catalog is refused as a missing field
ValidationError_CatalogTimes(req) ==
    IF \E f \in RequiredFields : Falsy(req[f]) THEN "Please fill all required fields."
    ELSE IF \A n \in DOMAIN DEFAULT_SLOTS : DEFAULT_SLOTS[n] # req.time
    THEN "Please fill all required fields."
    ELSE IF ~strptime(req.date).ok THEN "Invalid date format."
    ELSE "ok"

\* the date is checked before the presence of the fields
ValidationError_DateFirst(req) ==
    IF ~strptime(req.date).ok THEN "Invalid date format."
    ELSE IF \E f \in RequiredFields : Falsy(req[f]) THEN "Please fill all required fields."
    ELSE "ok"

\* the two validations, in order: the error message, or "ok"
ValidationError(req) ==
    IF \E f \in RequiredFields : Falsy(req[f]) THEN "Please fill all required fields."
    ELSE IF ~strptime(req.date).ok THEN "Invalid date format."
    ELSE "ok"

new_booking(req, status) ==
    [id |-> 0,
     customer_name |-> req.customer_name,
     phone |-> req.phone,
     service |-> ServiceOf(req),
     date |-> strptime(req.date).date,
     time |-> req.time,
     address |-> req.address,
     notes |-> req.notes,
     status |-> status,
     amount |-> PriceOf(ServiceOf(req))]

ErrorResponse(req) ==
    [op |-> "book", req |-> req, tag |-> "error", msg |-> ValidationError(req),
     time_slot |-> NoneV, d |-> NoDate, raised |-> FALSE]

AdmissionResponse(req, occupied) ==
    [op |-> "book", req |-> req,
     tag |-> IF occupied THEN "reject" ELSE "accept",
     msg |-> IF occupied THEN "already taken" ELSE "Booking accepted",
     time_slot |-> req.time, d |-> strptime(req.date).date, raised |-> FALSE]

\* every row is stored as accepted
StatusFor_Accepted(occupied) == "accepted"

\* the status book() gives the row, from what its query found
StatusFor(occupied) == IF occupied THEN "rejected" ELSE "accepted"

\* book() as one step: the query and the commit with nothing in between
book(req) ==
    /\ Busy = 0
    /\ IF ValidationError(req) # "ok"
       THEN /\ last' = ErrorResponse(req)
            /\ UNCHANGED <<store, inflight, validated>>
       ELSE LET occupied == Occupied(store, strptime(req.date).date, req.time)
            IN  /\ Len(store) < MaxBookings
                /\ store' = Insert(store, new_booking(req, StatusFor(occupied)))
                /\ last' = AdmissionResponse(req, occupied)
                /\ validated' = validated + 1
                /\ UNCHANGED inflight

\* the exception is caught and the answer is given as if the row were stored
book_commit_raises_Swallowed(req) ==
    /\ Busy = 0
    /\ ValidationError(req) = "ok"
    /\ validated < MaxBookings
    /\ last' = [AdmissionResponse(req, Occupied(store, strptime(req.date).date, req.time))
                    EXCEPT !.raised = TRUE]
    /\ validated' = validated + 1
    /\ UNCHANGED <<store, inflight>>

\* book() when db.session.commit() raises: nothing in book() catches the
\* exception, so the call ends with it instead of a rendered message; the
\* row was added to the session only, and the table does not get it
book_commit_raises(req) ==
    /\ Busy = 0
    /\ ValidationError(req) = "ok"
    /\ validated < MaxBookings
    /\ last' = [op |-> "book", req |-> req, tag |-> "exception", msg |-> "commit raised",
                time_slot |-> NoneV, d |-> NoDate, raised |-> TRUE]
    /\ validated' = validated + 1
    /\ UNCHANGED <<store, inflight>>

\* book() of thread p up to and including its query
book_query(p, req) ==
    /\ inflight[p].pc = "idle"
    /\ IF ValidationError(req) # "ok"
       THEN /\ last' = ErrorResponse(req)
            /\ UNCHANGED <<store, inflight, validated>>
       ELSE /\ validated < MaxThreadedCalls
            /\ inflight' = [inflight EXCEPT ![p] =
                    [pc |-> "commit", req |-> req,
                     occupied |-> Occupied(store, strptime(req.date).date, req.time)]]
            /\ validated' = validated + 1
            /\ UNCHANGED <<store, last>>

\* the commit asks again whether the slot is held
book_commit_Requery(p) ==
    LET req == inflight[p].req
        occupied == Occupied(store, strptime(req.date).date, req.time)
    IN  /\ inflight[p].pc = "commit"
        /\ store' = Insert(store, new_booking(req, StatusFor(occupied)))
        /\ last' = AdmissionResponse(req, occupied)
        /\ inflight' = [inflight EXCEPT ![p] = Idle]
        /\ UNCHANGED validated

\* book() of thread p from the branch on occupied to its return
book_commit(p) ==
    /\ inflight[p].pc = "commit"
    /\ store' = Insert(store, new_booking(inflight[p].req, StatusFor(inflight[p].occupied)))
    /\ last' = AdmissionResponse(inflight[p].req, inflight[p].occupied)
    /\ inflight' = [inflight EXCEPT ![p] = Idle]
    /\ UNCHANGED validated

---------------------------------------------------------------------------
(* GET /api/slots; fail: the query of available_slots_for raises *)

\* the handler also deletes the rejected rows it comes across
api_slots_Purging(date_str, fail) ==
    /\ fail => ~Falsy(date_str) /\ strptime(date_str).ok
    /\ last' = [op |-> "api_slots", date_str |-> date_str, fail |-> fail,
                slots |-> IF Falsy(date_str) THEN available_slots_for(store, NoDate, fail)
                          ELSE IF ~strptime(date_str).ok THEN <<>>
                          ELSE available_slots_for(store, strptime(date_str).date, fail)]
    /\ store' = SelectSeq(store, LAMBDA b : b.status # "rejected")
    /\ UNCHANGED <<inflight, validated>>


\* a date that fails to parse is treated like no date
api_slots_BadDateAsNone(date_str, fail) ==
    /\ fail => ~Falsy(date_str) /\ strptime(date_str).ok
    /\ last' = [op |-> "api_slots", date_str |-> date_str, fail |-> fail,
                slots |-> IF Falsy(date_str) \/ ~strptime(date_str).ok
                          THEN available_slots_for(store, NoDate, fail)
                          ELSE available_slots_for(store, strptime(date_str).date, fail)]
    /\ UNCHANGED <<store, inflight, validated>>


api_slots(date_str, fail) ==
    /\ fail => ~Falsy(date_str) /\ strptime(date_str).ok
    /\ last' = [op |-> "api_slots", date_str |-> date_str, fail |-> fail,
                slots |-> IF Falsy(date_str) THEN available_slots_for(store, NoDate, fail)
                          ELSE IF ~strptime(date_str).ok THEN <<>>
                          ELSE available_slots_for(store, strptime(date_str).date, fail)]
    /\ UNCHANGED <<store, inflight, validated>>

---------------------------------------------------------------------------
(* GET /schedule; today: the value of date.today() *)

\* a date that fails to parse selects no day instead of today
SelectedDate_NoFallback(date_str, today) ==
    IF Falsy(date_str) THEN today
    ELSE IF strptime(date_str).ok THEN strptime(date_str).date
    ELSE NoDate


SelectedDate(date_str, today) ==
    IF Falsy(date_str) THEN today
    ELSE IF strptime(date_str).ok THEN strptime(date_str).date
    ELSE today

schedule(date_str, today) ==
    LET selected == SelectedDate(date_str, today)
        rows == Rows(AcceptedOn(store, selected))
    IN  \E q \in OrderBy(rows, {ab \in rows \X rows : StrLess(ab[1].time, ab[2].time)}) :
            /\ last' = [op |-> "schedule", date_str |-> date_str, now |-> today,
                        today |-> selected, bookings |-> q]
            /\ UNCHANGED <<store, inflight, validated>>

---------------------------------------------------------------------------
(* GET /bookings.json *)

\* ORDER BY date, time: the date ascending
ExportBefore_DateAscending(a, b) ==
    \/ DateLess(a.date, b.date)
    \/ a.date = b.date /\ StrLess(a.time, b.time)

\* ORDER BY date DESC, time
ExportBefore(a, b) ==
    \/ DateLess(b.date, a.date)
    \/ a.date = b.date /\ StrLess(a.time, b.time)

ExportEntry(b) ==
    [id |-> b.id, customer_name |-> b.customer_name, phone |-> b.phone,
     date |-> isoformat(b.date), time |-> b.time, service |-> b.service,
     status |-> b.status, amount |-> b.amount]

bookings_json ==
    \E all_b \in OrderBy(Rows(store),
                         {ab \in Rows(store) \X Rows(store) : ExportBefore(ab[1], ab[2])}) :
        /\ last' = [op |-> "bookings_json",
                    body |-> [i \in 1..Len(store) |-> ExportEntry(all_b[i])]]
        /\ UNCHANGED <<store, inflight, validated>>

---------------------------------------------------------------------------
(* Specifications *)

Init ==
    /\ store = <<>>
    /\ inflight = [p \in Procs |-> Idle]
    /\ last = [op |-> "none"]
    /\ validated = 0

Reads ==
    \/ \E ds \in DateArgs, fail \in BOOLEAN : api_slots(ds, fail)
    \/ \E ds \in DateArgs, today \in Todays : schedule(ds, today)
    \/ bookings_json

\* requests are served one at a time
Next ==
    \/ \E req \in Requests : book(req)
    \/ Reads

Spec == Init /\ [][Next]_vars

\* requests are served by threads; the steps of two book() calls interleave
NextConc ==
    \/ \E p \in Procs, req \in Requests : book_query(p, req)
    \/ \E p \in Procs : book_commit(p)

SpecConc == Init /\ [][NextConc]_vars

\* requests are served one at a time, and the commit of book() may raise
NextFail ==
    \/ \E req \in Requests : book(req)
    \/ \E req \in Requests : book_commit_raises(req)

SpecFail == Init /\ [][NextFail]_vars


---------------------------------------------------------------------------
(* Vocabulary of the properties.  Under Spec every step is one whole       *)
(* handler call and sets last to its response, so last'.op names the       *)
(* handler a step ran and last'.req the request it was given.              *)

\* the rows that hold slot (d, t): accepted bookings for that date and time
Holders(st, d, t) ==
    {i \in DOMAIN st : st[i].date = d /\ st[i].time = t /\ st[i].status = "accepted"}

\* the calendar date each parsable date string of the model denotes
DateOf(ds) ==
    IF ds = LeapDay THEN <<2024, 2, 29>> ELSE <<2025, 1, 1>>

\* the request has every required field and a date that denotes a day
WellFormed(req) ==
    /\ \A f \in RequiredFields : req[f] # Empty /\ req[f] # NoneV
    /\ req.date \in ValidDateStrs

\* the step is a book() call on a well-formed request
Submits == last'.op = "book" /\ WellFormed(last'.req)

\* the new table is the old one with one row appended
AppendsOne == Len(store') = Len(store) + 1 /\ SubSeq(store', 1, Len(store)) = store

---------------------------------------------------------------------------
\* C1: when every book() call runs its query and its commit as one step, no
\* two accepted rows of the table have the same date and time.
C1_OneAcceptedPerSlot ==
    \A i, j \in DOMAIN store :
        (i # j /\ store[i].status = "accepted" /\ store[j].status = "accepted")
            => ~(store[i].date = store[j].date /\ store[i].time = store[j].time)

\* a slot was asked for twice, by differently spelled dates: one holder, one rejection
C1_Witness ==
    \E i, j \in DOMAIN store :
        /\ i < j
        /\ store[i].date = store[j].date /\ store[i].time = store[j].time
        /\ store[i].status = "accepted" /\ store[j].status = "rejected"
        /\ last.op = "book" /\ last.req.date = NewYearUnpadded

\* C2: when the query and the commit of book() are separate steps of
\* threads, a thread whose query found the slot free commits an accepted
\* row whatever the table holds by then, also when another thread has
\* meanwhile committed an accepted row for the same date and time.
C2_StaleQueryAdmits ==
    [][\A p \in Procs :
        (inflight[p].pc = "commit" /\ ~inflight[p].occupied /\ inflight'[p].pc = "idle")
            => /\ AppendsOne
               /\ store'[Len(store')].status = "accepted"
               /\ store'[Len(store')].date = DateOf(inflight[p].req.date)
               /\ store'[Len(store')].time = inflight[p].req.time
               /\ last'.tag = "accept"]_vars

\* both records of a raced slot are stored as accepted
C2_Witness ==
    \E i, j \in DOMAIN store :
        /\ i # j
        /\ store[i].date = store[j].date /\ store[i].time = store[j].time
        /\ store[i].status = "accepted" /\ store[j].status = "accepted"

\* C3: a well-formed submission for a slot that has a holder is answered
\* reject and appends exactly one row, with status rejected; the rows that
\* were there, the holder among them, are unchanged, and so is the number of
\* accepted rows.
C3_RejectedWhenHeld ==
    [][(Submits /\ Holders(store, DateOf(last'.req.date), last'.req.time) # {})
        => /\ last'.tag = "reject"
           /\ AppendsOne
           /\ store'[Len(store')].status = "rejected"
           /\ store'[Len(store')].date = DateOf(last'.req.date)
           /\ store'[Len(store')].time = last'.req.time
           /\ Holders(store', DateOf(last'.req.date), last'.req.time)
                = Holders(store, DateOf(last'.req.date), last'.req.time)
           /\ Cardinality({i \in DOMAIN store' : store'[i].status = "accepted"})
                = Cardinality({i \in DOMAIN store : store[i].status = "accepted"})]_vars

\* the holder, then a rejected attempt at its slot, and the rejection was the last answer
C3_Witness ==
    /\ Len(store) >= 2
    /\ last.op = "book" /\ last.tag = "reject"
    /\ store[Len(store)].status = "rejected"
    /\ \E i \in 1..(Len(store) - 1) :
        /\ store[i].status = "accepted"
        /\ store[i].date = store[Len(store)].date
        /\ store[i].time = store[Len(store)].time

\* C4: a well-formed submission for a slot without a holder is answered
\* accept and appends one accepted row whose amount is the catalog price of
\* the service asked for, and 15 when the service is absent or unknown.
C4_AcceptedWhenFree ==
    [][(Submits /\ Holders(store, DateOf(last'.req.date), last'.req.time) = {})
        => /\ last'.tag = "accept"
           /\ AppendsOne
           /\ store'[Len(store')].status = "accepted"
           /\ store'[Len(store')].date = DateOf(last'.req.date)
           /\ store'[Len(store')].time = last'.req.time
           /\ store'[Len(store')].amount =
                (IF last'.req.service = deluxe THEN 30
                 ELSE IF last'.req.service = royal THEN 50
                 ELSE 15)]_vars

\* an unknown service was accepted at the basic price, after a catalog service at its own
C4_Witness ==
    /\ last.op = "book" /\ last.tag = "accept" /\ last.req.service = gold
    /\ store[Len(store)].service = gold /\ store[Len(store)].amount = 15
    /\ \E i \in DOMAIN store : store[i].service = royal /\ store[i].amount = 50

\* C5: a submission with a required field empty or absent, or with a date
\* string that denotes no day, is answered error and leaves the table as it
\* was.
C5_InvalidWritesNothing ==
    [][(last'.op = "book" /\ ~WellFormed(last'.req))
        => last'.tag = "error" /\ store' = store]_vars

\* a bad date was refused while the table held rows
C5_Witness ==
    /\ last.op = "book" /\ last.tag = "error"
    /\ last.req.date \in BadDateStrs
    /\ Len(store) >= 2

\* C6: a book() call on a well-formed request appends exactly one row,
\* whether it accepts or rejects, and answers accept exactly when that row
\* is accepted and reject exactly when it is rejected; no other step adds a
\* row; so the table has as many rows as calls have passed validation.
C6_OneRowPerValidCall ==
    [][/\ Submits <=> validated' = validated + 1
       /\ Submits =>
            /\ AppendsOne
            /\ \/ last'.tag = "accept" /\ store'[Len(store')].status = "accepted"
               \/ last'.tag = "reject" /\ store'[Len(store')].status = "rejected"
       /\ ~Submits => Len(store') = Len(store) /\ validated' = validated
       /\ Len(store') = validated']_vars

\* three calls passed validation, some accepted and some rejected, and left three rows
C6_Witness ==
    /\ validated = 3 /\ Len(store) = 3
    /\ \E i \in DOMAIN store : store[i].status = "accepted"
    /\ \E i \in DOMAIN store : store[i].status = "rejected"
    /\ last.op = "book" /\ last.tag = "accept"

\* C7: every step of book(), /api/slots, /schedule and /bookings.json keeps
\* each row of the table, with every field as it was; rows are only added
\* at the end.
C7_AppendOnly ==
    [][/\ Len(store') >= Len(store)
       /\ SubSeq(store', 1, Len(store)) = store]_vars

\* an accepted and a rejected row are in the table after a later row and a read
C7_Witness ==
    /\ Len(store) >= 3
    /\ store[1].status = "accepted" /\ store[2].status = "rejected"
    /\ last.op \in {"api_slots", "schedule", "bookings_json"}

\* C8: when the date of /api/slots parses and the query succeeds, the answer
\* is the catalog, in catalog order, without the times of the accepted rows
\* of that date; rejected rows and rows of other dates take nothing away,
\* and a date without accepted rows gets the whole catalog.
C8_SlotsAreCatalogMinusHeld ==
    (last.op = "api_slots" /\ last.date_str \in ValidDateStrs /\ ~last.fail)
        => /\ last.slots =
                SelectSeq(DEFAULT_SLOTS,
                          LAMBDA s : Holders(store, DateOf(last.date_str), s) = {})
           /\ (\A i \in DOMAIN store :
                    store[i].status = "accepted" => store[i].date # DateOf(last.date_str))
                => last.slots = DEFAULT_SLOTS

\* the leap day has a holder and a rejected attempt at 08:00, new year's day a
\* holder at 09:00: the leap day's answer lacks 08:00 only
C8_Witness ==
    /\ last.op = "api_slots" /\ last.date_str = LeapDay /\ ~last.fail
    /\ Len(last.slots) = Len(DEFAULT_SLOTS) - 1
    /\ last.slots[1] = DEFAULT_SLOTS[2]
    /\ \E i \in DOMAIN store : store[i].status = "rejected" /\ store[i].date = DateOf(LeapDay)
    /\ Holders(store, DateOf(NewYear), DEFAULT_SLOTS[2]) # {}

\* C9: when book() accepts a booking for time s on date d, s is not among
\* the available slots of d afterwards, and every other catalog slot is
\* available afterwards exactly if it was before.
C9_AcceptTakesOnlyItsSlot ==
    [][(Submits /\ AppendsOne /\ store'[Len(store')].status = "accepted")
        => LET d == DateOf(last'.req.date)
               s == last'.req.time
               before == available_slots_for(store, d, FALSE)
               after == available_slots_for(store', d, FALSE)
           IN  /\ \A k \in DOMAIN after : after[k] # s
               /\ \A n \in DOMAIN DEFAULT_SLOTS :
                    DEFAULT_SLOTS[n] # s =>
                        ((\E k \in DOMAIN after : after[k] = DEFAULT_SLOTS[n])
                            <=> (\E k \in DOMAIN before : before[k] = DEFAULT_SLOTS[n]))]_vars

\* a second catalog slot of a day was accepted after the first
C9_Witness ==
    /\ last.op = "book" /\ last.tag = "accept"
    /\ Holders(store, DateOf(NewYear), DEFAULT_SLOTS[1]) # {}
    /\ Holders(store, DateOf(NewYear), DEFAULT_SLOTS[2]) # {}
    /\ Len(available_slots_for(store, DateOf(NewYear), FALSE)) = Len(DEFAULT_SLOTS) - 2

\* C10: when the query of available_slots_for raises, /api/slots still
\* answers with a slot list, which is the whole catalog, held slots
\* included, and the table is as it was.
C10_FailOpen ==
    [][(last'.op = "api_slots" /\ last'.fail)
        => last'.slots = DEFAULT_SLOTS /\ store' = store]_vars

\* the query failed for a day whose 08:00 is held, and 08:00 was offered
C10_Witness ==
    /\ last.op = "api_slots" /\ last.fail
    /\ Holders(store, DateOf(last.date_str), DEFAULT_SLOTS[1]) # {}
    /\ last.slots[1] = DEFAULT_SLOTS[1]

C12_ExportAllSorted ==
    (last.op = "bookings_json")
        => /\ Len(last.body) = Len(store)
           /\ \A i \in DOMAIN store :
                Cardinality({k \in DOMAIN last.body : last.body[k].id = store[i].id}) = 1
           /\ \A k \in DOMAIN last.body :
                LET e == last.body[k]
                    r == store[e.id]
                IN  /\ e.status = r.status /\ e.time = r.time /\ e.amount = r.amount
                    /\ e.service = r.service /\ e.customer_name = r.customer_name
                    /\ e.phone = r.phone
                    /\ e.date = (IF r.date = <<2024, 2, 29>> THEN LeapDay ELSE NewYear)
           /\ \A k, l \in DOMAIN last.body :
                k < l =>
                    LET a == store[last.body[k].id]
                        b == store[last.body[l].id]
                    IN  /\ ~DateLess(a.date, b.date)
                        /\ a.date = b.date => ~StrLess(b.time, a.time)

\* inserted as new year 09:00, leap day 08:00, new year 08:00; exported as
\* new year 08:00, new year 09:00, leap day 08:00
C12_Witness ==
    /\ last.op = "bookings_json"
    /\ Len(last.body) = 3
    /\ last.body[1].id = 3 /\ last.body[2].id = 1 /\ last.body[3].id = 2
    /\ last.body[1].time = DEFAULT_SLOTS[1] /\ last.body[2].time = DEFAULT_SLOTS[2]
    /\ last.body[3].date = LeapDay

\* C13: the answer of /schedule lists exactly the accepted rows of the
\* selected date, each once, none after one of a greater time, and no
\* rejected row; the selected date is the one the date string denotes, and
\* the server's current date when the string is absent, empty or denotes
\* no day.
C13_ScheduleOfSelectedDate ==
    (last.op = "schedule")
        => LET selected == IF last.date_str \in ValidDateStrs
                           THEN DateOf(last.date_str) ELSE last.now
               q == last.bookings
           IN  /\ last.today = selected
               /\ {q[k] : k \in DOMAIN q}
                    = {store[i] : i \in {j \in DOMAIN store :
                            store[j].date = selected /\ store[j].status = "accepted"}}
               /\ \A k, l \in DOMAIN q : k # l => q[k] # q[l]
               /\ \A k \in DOMAIN q : q[k].status # "rejected"
               /\ \A k, l \in DOMAIN q : k < l => ~StrLess(q[l].time, q[k].time)

\* an unparsable date on new year's day: of the rows 09:00, 08:00 and a
\* rejected 08:00, the schedule shows 08:00 then 09:00
C13_Witness ==
    /\ last.op = "schedule" /\ last.date_str \in BadDateStrs
    /\ last.now = DateOf(NewYear)
    /\ Len(store) = 3 /\ store[3].status = "rejected"
    /\ Len(last.bookings) = 2
    /\ last.bookings[1].id = 2 /\ last.bookings[1].time = DEFAULT_SLOTS[1]
    /\ last.bookings[2].id = 1 /\ last.bookings[2].time = DEFAULT_SLOTS[2]

\* C14: /api/slots answers with the whole catalog when the date is absent
\* or empty, with the empty list when the date string denotes no day,
\* whatever the table holds, and with available_slots_for of the day
\* otherwise.
C14_SlotsByDateArgument ==
    (last.op = "api_slots")
        => /\ last.date_str \in {Empty, NoneV} => last.slots = DEFAULT_SLOTS
           /\ last.date_str \in BadDateStrs => last.slots = <<>>
           /\ last.date_str \in ValidDateStrs
                => last.slots = available_slots_for(store, DateOf(last.date_str), last.fail)

\* no slots for the 29th of February 2025, while the table holds rows
C14_Witness ==
    /\ last.op = "api_slots"
    /\ last.date_str = <<"2", "0", "2", "5", "-", "0", "2", "-", "2", "9">>
    /\ last.slots = <<>>
    /\ Len(store) >= 2

\* C15: a well-formed submission whose time is no catalog slot is admitted
\* like any other: answered accept when no accepted row has exactly that
\* date and time string and reject otherwise, with one row appended that
\* has the time as given; and when it was accepted, the available slots of
\* its date are what they were.
C15_OffCatalogTimeAdmitted ==
    [][(Submits /\ \A n \in DOMAIN DEFAULT_SLOTS : DEFAULT_SLOTS[n] # last'.req.time)
        => LET d == DateOf(last'.req.date)
               held == Holders(store, d, last'.req.time) # {}
           IN  /\ AppendsOne
               /\ store'[Len(store')].time = last'.req.time
               /\ store'[Len(store')].date = d
               /\ ~held => last'.tag = "accept" /\ store'[Len(store')].status = "accepted"
               /\ held => last'.tag = "reject" /\ store'[Len(store')].status = "rejected"
               /\ available_slots_for(store', d, FALSE) = available_slots_for(store, d, FALSE)]_vars

\* 8:00 was accepted on a day whose 08:00 is held, the whole catalog but
\* 08:00 stayed available, and a second 8:00 was rejected
C15_Witness ==
    /\ last.op = "book" /\ last.tag = "reject" /\ last.req.time = OffCatalogTime
    /\ Holders(store, DateOf(NewYear), OffCatalogTime) # {}
    /\ Holders(store, DateOf(NewYear), DEFAULT_SLOTS[1]) # {}
    /\ Len(available_slots_for(store, DateOf(NewYear), FALSE)) = Len(DEFAULT_SLOTS) - 1

\* C16: book() answers a request that lacks a required field with the
\* missing-fields error, also when its date string denotes no day; it
\* answers with the bad-date error exactly when all five required fields
\* are there and the date string denotes no day.
C16_PresenceBeforeDate ==
    (last.op = "book")
        => LET lacks == \E f \in RequiredFields : last.req[f] \in {Empty, NoneV}
           IN  /\ lacks => last.tag = "error" /\ last.msg = "Please fill all required fields."
               /\ (last.tag = "error" /\ last.msg = "Invalid date format.")
                    <=> (~lacks /\ last.req.date \in BadDateStrs)

\* no address and the 40th of the 13th month: the missing field is reported
C16_Witness ==
    /\ last.op = "book" /\ last.tag = "error"
    /\ last.req.address = Empty
    /\ last.req.date = <<"2", "0", "2", "5", "-", "1", "3", "-", "4", "0">>
    /\ last.msg = "Please fill all required fields."

\* C17: when the commit of book() raises, the call ends with the exception,
\* not with an accept or a reject answer, and the table is as it was: it
\* has no row for the request.
C17_WriteFailurePropagates ==
    [][(last'.op = "book" /\ last'.raised)
        => /\ last'.tag \notin {"accept", "reject", "error"}
           /\ store' = store]_vars

\* a commit raised after a row had been stored: more calls passed validation than there are rows
C17_Witness ==
    /\ last.op = "book" /\ last.raised
    /\ Len(store) >= 1
    /\ validated > Len(store)

\* C18: also when the steps of book() calls interleave, every rejected row
\* comes after an accepted row of the same date and time that has a smaller
\* id; so the row with the smallest id of any date and time is accepted.
C18_RejectedHasEarlierHolder ==
    /\ \A j \in DOMAIN store :
        store[j].status = "rejected"
            => \E i \in DOMAIN store :
                /\ store[i].id < store[j].id
                /\ store[i].status = "accepted"
                /\ store[i].date = store[j].date /\ store[i].time = store[j].time
    /\ \A j \in DOMAIN store :
        (\A i \in DOMAIN store :
            (store[i].date = store[j].date /\ store[i].time = store[j].time)
                => store[j].id <= store[i].id)
            => store[j].status = "accepted"

\* a thread committed a rejected row for a slot while another thread was
\* between its query and its commit
C18_Witness ==
    /\ \E j \in DOMAIN store : store[j].status = "rejected"
    /\ \E p \in Procs : inflight[p].pc = "commit"

\* C19: when the available slots of a date lack a catalog slot, they lack
\* it after every step too, and a well-formed submission for that date and
\* slot is answered reject.  (A step that leaves the table as it is leaves
\* the available slots as they are.)
C19_AvailabilityOnlyShrinks ==
    [][\A d \in {DateOf(ds) : ds \in ValidDateStrs} :
        LET Lacking(slots) ==
                {DEFAULT_SLOTS[n] : n \in DOMAIN DEFAULT_SLOTS} \ {slots[k] : k \in DOMAIN slots}
        IN  /\ store' # store
                => Lacking(available_slots_for(store, d, FALSE))
                    \subseteq Lacking(available_slots_for(store', d, FALSE))
            /\ (Submits /\ DateOf(last'.req.date) = d
                    /\ last'.req.time \in Lacking(available_slots_for(store, d, FALSE)))
                => last'.tag = "reject"]_vars

\* 08:00 of new year's day was rejected twice, and /api/slots still leaves it out
C19_Witness ==
    /\ last.op = "api_slots" /\ ~last.fail /\ last.date_str = NewYear
    /\ \A k \in DOMAIN last.slots : last.slots[k] # DEFAULT_SLOTS[1]
    /\ Len(store) = 3
    /\ store[2].status = "rejected" /\ store[3].status = "rejected"
    /\ store[3].time = DEFAULT_SLOTS[1]

\* C20: when requests are served one at a time and the availability query
\* does not raise, a well-formed submission for a catalog slot is answered
\* accept exactly if the slot is among the available slots of its date in
\* the table as it was before the call, and reject otherwise.
C20_AdmissionAgreesWithAvailability ==
    [][(Submits /\ \E n \in DOMAIN DEFAULT_SLOTS : DEFAULT_SLOTS[n] = last'.req.time)
        => LET slots == available_slots_for(store, DateOf(last'.req.date), FALSE)
               free == \E k \in DOMAIN slots : slots[k] = last'.req.time
           IN  /\ free => last'.tag = "accept"
               /\ ~free => last'.tag = "reject"]_vars

\* 08:00 of new year's day was accepted and then rejected, and 08:00 of the
\* leap day, still available, was accepted after that
C20_Witness ==
    /\ Len(store) = 3
    /\ store[1].status = "accepted" /\ store[2].status = "rejected"
    /\ store[2].date = DateOf(NewYear) /\ store[2].time = DEFAULT_SLOTS[1]
    /\ store[3].date = DateOf(LeapDay) /\ store[3].time = DEFAULT_SLOTS[1]
    /\ last.op = "book" /\ last.tag = "accept"

====
